---- MODULE Spec2Model ----
(***************************************************************************)
(* Vehicle parking application: the reservation / release / payment        *)
(* lifecycle, lot and spot management and account soft-deletion, modelled  *)
(* from controllers/user.py, controllers/admin.py, controllers/api.py,     *)
(* controllers/auth.py and models/model.py.                                *)
(*                                                                         *)
(* The entity store is one record `db` of tables; a table is a function    *)
(* from primary key to row, so a primary key is unique by construction.    *)
(* Currency is kept in integer hundredths, durations in hundredths of an   *)
(* hour, the clock in whole seconds.  Descriptive columns (names,          *)
(* addresses, vehicle brand/colour, profile) are not part of the model.    *)
(***************************************************************************)
EXTENDS Integers, FiniteSets, Sequences, TLC

\* ---------------------------------------------------------------- bounds
MaxLotId == 1
MaxSpotId == 2
MaxResId == 3
MaxPayId == 2
MaxTicks == 2
MaxSteps == 3
MaxConcSteps == 6
MaxCapacity == 1
MaxQuoteSeconds == 40

\* ------------------------------------------------------ program constants
HourSeconds == 3600
DeletionDelay == 1296000

\* ------------------------------------------------------------ input sets
UserIds == {"u1", "u2"}
VehicleInputs == {"V1", " V1", "V2"}
Prices == {1000}
EditPrices == {2000}
OpenHours == {[open |-> 0, close |-> 86399]}
ShortHours == {[open |-> 0, close |-> HourSeconds]}
PaymentMethods == {"upi"}
Payers == {"u1"}
DeletingUsers == {"u2"}
TickSteps == {DeletionDelay}
AdminId == "admin"
Callers == UserIds \cup {AdminId, "anonymous"}
QuotePrices == {1000, 333, 50}
QuoteTimes == (0 .. MaxQuoteSeconds) \cup {450, HourSeconds, 2 * HourSeconds}
MaxNow == HourSeconds + MaxTicks * DeletionDelay

NULL == 0
NONE == -1
NoForm == [lot_id |-> NULL, spot_id |-> NULL, user_id |-> "-"]
NoQuote == [leaving_timestamp |-> NONE, duration |-> 0, total_cost |-> 0, rid |-> NULL]
NoPending == [lot_id |-> NULL, spot_id |-> NULL, user_id |-> "-",
              vehicle_number |-> "-", price |-> 0, new_vehicle |-> FALSE]

VARIABLES
    db,        \* the committed entity store
    now,       \* the wall clock, seconds
    loggedIn,  \* users holding an authenticated session
    session,   \* per user: the quote kept in the Flask session
    form,      \* per user: the reserve form last rendered to the browser
    pending,   \* per request in flight: what it has read and not yet written
    last,      \* the response of the last request
    budget,    \* requests and clock ticks the behaviour may still take
    ledger     \* history: per payment, the lot whose revenue it was credited to

vars == <<db, now, loggedIn, session, form, pending, last, budget, ledger>>

\* --------------------------------------------------------------- helpers
Max(S) == CHOOSE x \in S : \A y \in S : y <= x

\* SQLite rowid of an INTEGER PRIMARY KEY without AUTOINCREMENT
NextId(table) == IF DOMAIN table = {} THEN 1 ELSE Max(DOMAIN table) + 1

Put(table, k, row) == [x \in DOMAIN table \cup {k} |-> IF x = k THEN row ELSE table[x]]

Drop(table, keys) == [x \in DOMAIN table \ keys |-> table[x]]

RECURSIVE SumOver(_, _)
SumOver(S, f) ==
    IF S = {} THEN 0
    ELSE LET x == CHOOSE y \in S : TRUE IN f[x] + SumOver(S \ {x}, f)

\* str.strip() on the vehicle numbers a client may type
Strip(v) == IF v = " V1" THEN "V1" ELSE v

\* Python round(x, 2) of the float x = num/den, in hundredths: the nearest
\* hundredth; a decimal tie has no exact binary value in general, so the
\* float lies on either side of it and the result is either neighbour
round(num, den) ==
    LET q == num \div den
        r == num % den
    IN IF 2 * r < den THEN {q}
       ELSE IF 2 * r > den THEN {q + 1}
       ELSE {q, q + 1}

\* round(duration_seconds / 3600, 2), in hundredths of an hour
DurationHours(seconds) == round(seconds * 100, HourSeconds)

\* a cost that drops the part below a hundredth
TotalCost_Truncated(hours100, price100) == {(hours100 * price100) \div 100}

\* round(duration_hours * parking_cost_per_hour, 2), in hundredths
TotalCost(hours100, price100) == round(hours100 * price100, 100)

Resp(op, res, u, id) == [op |-> op, res |-> res]

\* ----------------------------------------------------------- transactions
\* db.session.commit(): the staged unit of work becomes the store
Commit(d, staged) == staged

\* a failed unit of work whose staged changes reach the store all the same
Rollback_KeepsStaged(d, staged) == staged

\* db.session.rollback(), or the session being discarded at request
\* teardown after an uncaught exception: nothing staged is kept
Rollback(d, staged) == d

\* every step of a behaviour draws on the budget
Step == budget > 0 /\ budget' = budget - 1

Done(d) == [ok |-> TRUE, err |-> "ok", db |-> d]
Fail(err, d) == [ok |-> FALSE, err |-> err, db |-> d]

\* ------------------------------------------------------------------ Init
EmptyStore ==
    [users |-> [u \in UserIds |->
                  [is_active |-> TRUE, scheduled_delete_at |-> NONE]],
     lots |-> <<>>,
     spots |-> <<>>,
     vehicles |-> [v \in {} |-> [user_id |-> "-"]],
     reservations |-> <<>>,
     payments |-> <<>>]

\* the clock advances
Tick ==
    /\ \E d \in TickSteps : now + d <= MaxNow /\ now' = now + d
    /\ last' = Resp("tick", "ok", "-", 0)
    /\ Step
    /\ UNCHANGED <<db, loggedIn, session, form, pending, ledger>>

\* the clock advances by an hour, into another time of the day
TickHour ==
    /\ now + HourSeconds <= MaxNow
    /\ now' = now + HourSeconds
    /\ last' = Resp("tick", "ok", "-", 0)
    /\ Step
    /\ UNCHANGED <<db, loggedIn, session, form, pending, ledger>>

\* the clock advances by a second, while requests are being served
TickSecond ==
    /\ now + 1 <= MaxNow
    /\ now' = now + 1
    /\ last' = Resp("tick", "ok", "-", 0)
    /\ Step
    /\ UNCHANGED <<db, loggedIn, session, form, pending, ledger>>

\* ======================================================== models/model.py
\* rows as the column defaults create them
NewLot(price, n, hours) ==
    [price_per_hour |-> price, maximum_number_of_spots |-> n, revenue |-> 0,
     is_active |-> TRUE, open_time |-> hours.open, close_time |-> hours.close]

NewSpot(lid, i) ==
    [lot_id |-> lid, spot_number |-> <<lid, i>>, status |-> "A",
     is_covered |-> FALSE, revenue |-> 0]

SpotsOf(d, lid) == {s \in DOMAIN d.spots : d.spots[s].lot_id = lid}

\* ParkingLot.occupied_spots
occupied_spots(d, lid) ==
    Cardinality({s \in SpotsOf(d, lid) : d.spots[s].status = "O"})

\* a spot deletion that reopens the reservations of the spot
DeleteSpots_Reopens(d, S) ==
    [d EXCEPT !.spots = Drop(@, S),
              !.reservations = [r \in DOMAIN @ |->
                  IF @[r].spot_id \in S
                  THEN [@[r] EXCEPT !.spot_id = NULL, !.status = "ACTIVE",
                                    !.leaving_timestamp = NONE]
                  ELSE @[r]]]

\* a spot deletion that takes the reservations of the spot with it
DeleteSpots_Cascades(d, S) ==
    [d EXCEPT !.spots = Drop(@, S),
              !.reservations =
                  Drop(@, {r \in DOMAIN @ : @[r].spot_id \in S})]

\* ParkingSpot.reservations has no delete cascade: deleting a spot blanks
\* the spot_id of the reservations that reference it
DeleteSpots(d, S) ==
    [d EXCEPT !.spots = Drop(@, S),
              !.reservations = [r \in DOMAIN @ |->
                  IF @[r].spot_id \in S THEN [@[r] EXCEPT !.spot_id = NULL]
                  ELSE @[r]]]

\* ParkingLot.parking_spots cascades the delete to the lot's spots
DeleteLot(d, lid) ==
    LET d1 == DeleteSpots(d, SpotsOf(d, lid))
    IN [d1 EXCEPT !.lots = Drop(@, {lid})]

\* User.vehicles and User.reservations cascade the delete; Vehicle.reservations
\* cascades it on to every reservation made for the vehicle
CascadeVehicles(d, U) == {v \in DOMAIN d.vehicles : d.vehicles[v].user_id \in U}

CascadeReservations(d, U) ==
    {r \in DOMAIN d.reservations :
        \/ d.reservations[r].user_id \in U
        \/ d.reservations[r].vehicle_number \in CascadeVehicles(d, U)}

\* ReservedParkingSpot.payment has no delete cascade, so deleting a
\* reservation blanks Payment.reservation_id, which is NOT NULL: the flush
\* raises IntegrityError
PaymentsOf(d, R) == {p \in DOMAIN d.payments : d.payments[p].reservation_id \in R}

\* a deletion that removes one of the users and leaves the others for later
DeleteUsers_OneAtATime(d, U) ==
    LET U1 == IF U = {} THEN {} ELSE {CHOOSE u \in U : TRUE}
        R == CascadeReservations(d, U1)
        staged == [d EXCEPT !.users = Drop(@, U1),
                            !.vehicles = Drop(@, CascadeVehicles(d, U1)),
                            !.reservations = Drop(@, R)]
    IN IF PaymentsOf(d, R) # {} THEN Fail("IntegrityError", Rollback(d, staged))
       ELSE Done(Commit(d, staged))

DeleteUsers(d, U) ==
    LET R == CascadeReservations(d, U)
        staged == [d EXCEPT !.users = Drop(@, U),
                            !.vehicles = Drop(@, CascadeVehicles(d, U)),
                            !.reservations = Drop(@, R)]
    IN IF PaymentsOf(d, R) # {} THEN Fail("IntegrityError", Rollback(d, staged))
       ELSE Done(Commit(d, staged))

\* ================================================== controllers/admin.py
\* add_parking_lot: the lot and its spots in one commit
add_parking_lot_tx(d, price, n, hours, commitOk) ==
    LET lid == NextId(d.lots)
        first == NextId(d.spots)
        d1 == [d EXCEPT !.lots = Put(@, lid, NewLot(price, n, hours))]
        d2 == [d1 EXCEPT !.spots =
                  [s \in DOMAIN @ \cup (first .. first + n - 1) |->
                      IF s \in DOMAIN @ THEN @[s] ELSE NewSpot(lid, s - first + 1)]]
    IN IF commitOk THEN Done(Commit(d, d2))
       ELSE Fail("PersistenceFailure", Rollback(d, d2))

add_parking_lot ==
    \E price \in Prices, n \in 1 .. MaxCapacity, hours \in OpenHours,
       commitOk \in BOOLEAN :
        /\ NextId(db.lots) <= MaxLotId
        /\ NextId(db.spots) + n - 1 <= MaxSpotId
        /\ LET t == add_parking_lot_tx(db, price, n, hours, commitOk)
           IN /\ db' = t.db
              /\ last' = Resp("add_lot", t.err, "admin", NextId(db.lots))
              /\ ledger' = IF t.ok
                            THEN [p \in DOMAIN ledger |->
                                    IF ledger[p] = NextId(db.lots) THEN NULL ELSE ledger[p]]
                            ELSE ledger
        /\ Step
        /\ UNCHANGED <<now, loggedIn, session, form, pending>>

\* an edit that also clears what the lot has earned
edit_parking_lot_tx_ResetsRevenue(d, lid, price, hours, active) ==
    [d EXCEPT !.lots[lid].price_per_hour = price,
              !.lots[lid].open_time = hours.open,
              !.lots[lid].close_time = hours.close,
              !.lots[lid].is_active = active,
              !.lots[lid].revenue = 0]

\* edit_parking_lot: price, hours and the active flag
edit_parking_lot_tx(d, lid, price, hours, active) ==
    [d EXCEPT !.lots[lid].price_per_hour = price,
              !.lots[lid].open_time = hours.open,
              !.lots[lid].close_time = hours.close,
              !.lots[lid].is_active = active]

edit_parking_lot ==
    \E lid \in DOMAIN db.lots, price \in EditPrices, hours \in OpenHours,
       active \in {TRUE} :
        /\ db' = Commit(db, edit_parking_lot_tx(db, lid, price, hours, active))
        /\ last' = Resp("edit_lot", "ok", "admin", lid)
        /\ Step
        /\ UNCHANGED <<now, loggedIn, session, form, pending, ledger>>

\* delete_parking_lot: refused while a spot of the lot is occupied
delete_parking_lot_tx(d, lid) ==
    IF occupied_spots(d, lid) > 0 THEN Fail("Conflict", d)
    ELSE Done(Commit(d, DeleteLot(d, lid)))

delete_parking_lot ==
    \E lid \in DOMAIN db.lots :
        /\ LET t == delete_parking_lot_tx(db, lid)
           IN /\ db' = t.db
              /\ last' = Resp("delete_lot", t.err, "admin", lid)
        /\ Step
        /\ UNCHANGED <<now, loggedIn, session, form, pending, ledger>>

\* view_delete_spot: refused while the spot is occupied
view_delete_spot_tx(d, sid) ==
    IF d.spots[sid].status = "O" THEN Fail("Conflict", d)
    ELSE LET lid == d.spots[sid].lot_id
             d1 == IF lid \in DOMAIN d.lots
                   THEN [d EXCEPT !.lots[lid].maximum_number_of_spots = @ - 1]
                   ELSE d
         IN IF lid \notin DOMAIN d.lots THEN Fail("ServerError", Rollback(d, d1))
            ELSE Done(Commit(d, DeleteSpots(d1, {sid})))

view_delete_spot ==
    \E sid \in DOMAIN db.spots :
        /\ LET t == view_delete_spot_tx(db, sid)
           IN /\ db' = t.db
              /\ last' = Resp("delete_spot", t.err, "admin", sid)
        /\ Step
        /\ UNCHANGED <<now, loggedIn, session, form, pending, ledger>>

\* ==================================================== controllers/api.py
\* ParkingLotApi.post: the handler reads args['name'], which the request
\* parser never holds, before it builds the lot; the KeyError is caught, the
\* session rolled back and the request answered with 500
ParkingLotApi_post_tx(d, price, n, hours) ==
    Fail("ServerError", Rollback(d, d))

ParkingLotApi_post ==
    \E price \in Prices, n \in 1 .. MaxCapacity, hours \in OpenHours :
        /\ LET t == ParkingLotApi_post_tx(db, price, n, hours)
           IN /\ db' = t.db
              /\ last' = Resp("api_add_lot", t.err, "admin", NextId(db.lots))
        /\ Step
        /\ UNCHANGED <<now, loggedIn, session, form, pending, ledger>>

\* ParkingLotApi.put: the parser requires price_per_hour (NONE = absent: the
\* 400 it raises is caught and answered with 500); of the parsed arguments
\* only open_time, close_time, price_per_hour and is_active are applied, each
\* only when it is present (NONE and "" = absent)
ParkingLotApi_put_tx(d, lid, price, hours, active) ==
    LET staged ==
          [d EXCEPT !.lots[lid].open_time = IF hours.open = NONE THEN @ ELSE hours.open,
                    !.lots[lid].close_time = IF hours.close = NONE THEN @ ELSE hours.close,
                    !.lots[lid].price_per_hour = price,
                    !.lots[lid].is_active = IF active = "" THEN @ ELSE active = "T"]
    IN IF price = NONE THEN Fail("ServerError", Rollback(d, d))
       ELSE Done(Commit(d, staged))

ParkingLotApi_put ==
    \E lid \in DOMAIN db.lots, price \in EditPrices \cup {NONE},
       hours \in ShortHours \cup {[open |-> NONE, close |-> NONE]},
       active \in {"", "T", "F"} :
        /\ LET t == ParkingLotApi_put_tx(db, lid, price, hours, active)
           IN /\ db' = t.db
              /\ last' = Resp("api_put_lot", t.err, "admin", lid)
        /\ Step
        /\ UNCHANGED <<now, loggedIn, session, form, pending, ledger>>

\* ParkingLotApi.delete: no occupancy check
ParkingLotApi_delete ==
    \E lid \in DOMAIN db.lots :
        /\ db' = Commit(db, DeleteLot(db, lid))
        /\ last' = Resp("api_delete_lot", "ok", "admin", lid)
        /\ Step
        /\ UNCHANGED <<now, loggedIn, session, form, pending, ledger>>

\* ParkingSpotApi.delete: no occupancy check, capacity counter untouched
ParkingSpotApi_delete ==
    \E sid \in DOMAIN db.spots :
        /\ db' = Commit(db, DeleteSpots(db, {sid}))
        /\ last' = Resp("api_delete_spot", "ok", "admin", sid)
        /\ Step
        /\ UNCHANGED <<now, loggedIn, session, form, pending, ledger>>

\* a spot update that clears what the spot has earned
ParkingSpotApi_put_tx_ClearsRevenue(d, sid, lid, status) ==
    [d EXCEPT !.spots[sid].lot_id = lid,
              !.spots[sid].status = IF status = "" THEN @ ELSE status,
              !.spots[sid].revenue = 0]

\* ParkingSpotApi.put: lot_id is required, status is optional ("" = absent)
ParkingSpotApi_put_tx(d, sid, lid, status) ==
    [d EXCEPT !.spots[sid].lot_id = lid,
              !.spots[sid].status = IF status = "" THEN @ ELSE status]

ParkingSpotApi_put ==
    \E sid \in DOMAIN db.spots, lid \in 1 .. MaxLotId + 1, status \in {"", "A", "O"} :
        /\ db' = Commit(db, ParkingSpotApi_put_tx(db, sid, lid, status))
        /\ last' = Resp("api_put_spot", "ok", "admin", sid)
        /\ Step
        /\ UNCHANGED <<now, loggedIn, session, form, pending, ledger>>

\* =================================================== controllers/user.py
Authenticated(u) == u \in loggedIn /\ u \in DOMAIN db.users

TimeOfDay(t) == t % 86400

AvailableSpots(d, lid) == {s \in SpotsOf(d, lid) : d.spots[s].status = "A"}

ActiveFor(d, vnum) ==
    {r \in DOMAIN d.reservations :
        /\ d.reservations[r].vehicle_number = vnum
        /\ d.reservations[r].leaving_timestamp = NONE}

\* reserve_spot, GET: pick an available spot and render the form
reserve_spot_get ==
    \E u \in UserIds, lid \in DOMAIN db.lots :
        /\ Authenticated(u)
        /\ IF lid \notin DOMAIN db.lots
           THEN /\ last' = Resp("reserve_get", "NotFound", u, lid)
                /\ form' = form
           ELSE IF AvailableSpots(db, lid) = {}
           THEN /\ last' = Resp("reserve_get", "LotFull", u, lid)
                /\ form' = form
           ELSE IF ~(db.lots[lid].open_time <= TimeOfDay(now)
                     /\ TimeOfDay(now) <= db.lots[lid].close_time)
           THEN /\ last' = Resp("reserve_get", "OutsideOperatingHours", u, lid)
                /\ form' = form
           ELSE \E sid \in AvailableSpots(db, lid) :
                /\ form' = [form EXCEPT ![u] =
                              [lot_id |-> lid, spot_id |-> sid, user_id |-> u]]
                /\ last' = Resp("reserve_get", "ok", u, lid)
        /\ Step
        /\ UNCHANGED <<db, now, loggedIn, session, pending, ledger>>

\* the form as it is posted back: user_id is a field of the form, filled on
\* GET and read-only in the page only, so the POST carries what the client
\* sends
Submitted(f, uid) == [f EXCEPT !.user_id = uid]

\* reserve_spot, POST, up to the first write: the lot, its available spots,
\* the duplicate-vehicle check and the vehicle lookup are read from the store
reserve_spot_reads(d, f, vnum) ==
    IF f.lot_id \notin DOMAIN d.lots THEN [err |-> "NotFound", p |-> NoPending]
    ELSE IF AvailableSpots(d, f.lot_id) = {} THEN [err |-> "LotFull", p |-> NoPending]
    ELSE IF ActiveFor(d, vnum) # {} THEN [err |-> "VehicleAlreadyParked", p |-> NoPending]
    ELSE [err |-> "ok",
          p |-> [lot_id |-> f.lot_id, spot_id |-> f.spot_id, user_id |-> f.user_id,
                 vehicle_number |-> vnum,
                 price |-> d.lots[f.lot_id].price_per_hour,
                 new_vehicle |-> vnum \notin DOMAIN d.vehicles]]

NewReservation(p, t) ==
    [spot_id |-> p.spot_id, user_id |-> p.user_id,
     vehicle_number |-> p.vehicle_number, parking_timestamp |-> t,
     leaving_timestamp |-> NONE, parking_cost_per_hour |-> p.price,
     status |-> "ACTIVE"]

\* a vehicle row added without its owner
InsertVehicle_Unowned(d, p) ==
    [d EXCEPT !.vehicles = Put(@, Strip(p.vehicle_number), [user_id |-> "-"])]

\* the vehicle row is added under the stripped number
InsertVehicle(d, p) ==
    [d EXCEPT !.vehicles = Put(@, Strip(p.vehicle_number), [user_id |-> p.user_id])]

InsertReservation(d, p, t) ==
    [d EXCEPT !.reservations = Put(@, NextId(@), NewReservation(p, t))]

\* a reserve that leaves the spot as it found it
OccupySpot_Skipped(d, sid) == d

OccupySpot(d, sid) ==
    [d EXCEPT !.spots[sid].status = "O", !.spots[sid].is_covered = TRUE]

\* reserve_spot, POST, the unit of work: vehicle insert if new, reservation
\* insert, spot update, one commit
reserve_spot_tx(d, p, t, commitOk) ==
    LET vkey == Strip(p.vehicle_number)
        d1 == IF p.new_vehicle THEN InsertVehicle(d, p) ELSE d
        d2 == InsertReservation(d1, p, t)
        d3 == IF p.spot_id \in DOMAIN d.spots THEN OccupySpot(d2, p.spot_id) ELSE d2
    IN IF p.new_vehicle /\ vkey \in DOMAIN d.vehicles
       THEN Fail("IntegrityError", Rollback(d, d1))
       ELSE IF p.spot_id \notin DOMAIN d.spots
       THEN Fail("NotFound", Rollback(d, d2))
       ELSE IF ~commitOk THEN Fail("PersistenceFailure", Rollback(d, d3))
       ELSE Done(Commit(d, d3))

\* reserve_spot, POST, as one request served alone
reserve_spot_post ==
    \E u \in UserIds, uid \in UserIds, vnum \in VehicleInputs, commitOk \in BOOLEAN :
        /\ Authenticated(u)
        /\ form[u] # NoForm
        /\ NextId(db.reservations) <= MaxResId
        /\ LET rd == reserve_spot_reads(db, Submitted(form[u], uid), vnum)
               t == reserve_spot_tx(db, rd.p, now, commitOk)
           IN IF rd.err # "ok"
              THEN /\ db' = db
                   /\ last' = Resp("reserve", rd.err, u, 0)
              ELSE /\ db' = t.db
                   /\ last' = Resp("reserve", t.err, u, NextId(db.reservations))
        /\ form' = [form EXCEPT ![u] = NoForm]
        /\ Step
        /\ UNCHANGED <<now, loggedIn, session, pending, ledger>>

\* reserve_spot, POST, served concurrently with other requests: the reads
\* are not protected by the write transaction that follows them
reserve_post_begin ==
    \E u \in UserIds, uid \in UserIds, vnum \in VehicleInputs :
        /\ Authenticated(u)
        /\ form[u] # NoForm
        /\ pending[u] = NoPending
        /\ LET rd == reserve_spot_reads(db, Submitted(form[u], uid), vnum)
           IN /\ pending' = [pending EXCEPT ![u] = rd.p]
              /\ last' = Resp("reserve_begin", rd.err, u, 0)
        /\ form' = [form EXCEPT ![u] = NoForm]
        /\ Step
        /\ UNCHANGED <<db, now, loggedIn, session, ledger>>

reserve_post_finish ==
    \E u \in UserIds, commitOk \in BOOLEAN :
        /\ pending[u] # NoPending
        /\ NextId(db.reservations) <= MaxResId
        /\ LET t == reserve_spot_tx(db, pending[u], now, commitOk)
           IN /\ db' = t.db
              /\ last' = Resp("reserve", t.err, u, NextId(db.reservations))
        /\ pending' = [pending EXCEPT ![u] = NoPending]
        /\ Step
        /\ UNCHANGED <<now, loggedIn, session, form, ledger>>

\* released, POST: the quote is computed and kept in the session
\* a quote priced at what the lot charges at the time of the quote
Quotes_AtLotPrice(d, rid, t) ==
    LET r == d.reservations[rid]
        lid == IF r.spot_id \in DOMAIN d.spots THEN d.spots[r.spot_id].lot_id ELSE NULL
        price == IF lid \in DOMAIN d.lots THEN d.lots[lid].price_per_hour
                 ELSE r.parking_cost_per_hour
    IN UNION {{[leaving_timestamp |-> t, duration |-> hours,
                total_cost |-> cost, rid |-> rid] :
                  cost \in TotalCost(hours, price)} :
              hours \in DurationHours(t - r.parking_timestamp)}

Quotes(d, rid, t) ==
    LET r == d.reservations[rid]
    IN UNION {{[leaving_timestamp |-> t, duration |-> hours,
                total_cost |-> cost, rid |-> rid] :
                  cost \in TotalCost(hours, r.parking_cost_per_hour)} :
              hours \in DurationHours(t - r.parking_timestamp)}

\* a quote that writes the leaving time to the reservation
released_StoresLeaving ==
    \E u \in Payers, rid \in DOMAIN db.reservations :
        /\ Authenticated(u)
        /\ \E q \in Quotes(db, rid, now) : session' = [session EXCEPT ![u] = q]
        /\ db' = [db EXCEPT !.reservations[rid].leaving_timestamp = now]
        /\ last' = Resp("quote", "ok", u, rid)
        /\ Step
        /\ UNCHANGED <<now, loggedIn, form, pending, ledger>>

released ==
    \E u \in Payers, rid \in DOMAIN db.reservations :
        /\ Authenticated(u)
        /\ IF rid \notin DOMAIN db.reservations
           THEN /\ session' = session
                /\ last' = Resp("quote", "NotFound", u, rid)
           ELSE IF db.reservations[rid].spot_id = NULL
           THEN /\ session' = session
                /\ last' = Resp("quote", "ValidationError", u, rid)
           ELSE /\ \E q \in Quotes(db, rid, now) :
                      session' = [session EXCEPT ![u] = q]
                /\ last' = Resp("quote", "ok", u, rid)
        /\ Step
        /\ UNCHANGED <<db, now, loggedIn, form, pending, ledger>>

\* a settlement that records the leaving time and forgets the status
MarkLeft_StatusKept(d, rid, q) ==
    [d EXCEPT !.reservations[rid].leaving_timestamp = q.leaving_timestamp]

\* the reservation gets the leaving time of the quote
MarkLeft(d, rid, q) ==
    [d EXCEPT !.reservations[rid].leaving_timestamp = q.leaving_timestamp,
              !.reservations[rid].status = "COMPLETED"]

\* a settlement that credits the spot and leaves it occupied
FreeSpot_StaysOccupied(d, sid, q) ==
    [d EXCEPT !.spots[sid].revenue = @ + q.total_cost]

FreeSpot(d, sid, q) ==
    [d EXCEPT !.spots[sid].is_covered = FALSE,
              !.spots[sid].status = "A",
              !.spots[sid].revenue = @ + q.total_cost]

\* PaymentForm.amount is set from the session's total cost before validation
RecordPayment(d, rid, q, method) ==
    [d EXCEPT !.payments = Put(@, NextId(@),
        [reservation_id |-> rid, amount |-> q.total_cost,
         payment_method |-> method, payment_status |-> "PAID"])]

\* a settlement that credits the lot with the hours instead of the cost
CreditLot_Duration(d, lid, q) ==
    [d EXCEPT !.lots[lid].revenue = @ + q.duration]

CreditLot(d, lid, q) ==
    [d EXCEPT !.lots[lid].revenue = @ + q.total_cost]

\* make_payment, POST, the unit of work
make_payment_tx(d, rid, q, method, commitOk) ==
    LET r == d.reservations[rid]
        sid == r.spot_id
        hasSpot == sid # NULL /\ sid \in DOMAIN d.spots
        d1 == MarkLeft(d, rid, q)
        d2 == IF hasSpot THEN FreeSpot(d1, sid, q) ELSE d1
        d3 == RecordPayment(d2, rid, q, method)
        lid == IF hasSpot THEN d.spots[sid].lot_id ELSE NULL
        hasLot == lid \in DOMAIN d.lots
        d4 == IF hasLot THEN CreditLot(d3, lid, q) ELSE d3
    IN IF ~hasSpot THEN Fail("ServerError", Rollback(d, d1))
       ELSE IF ~hasLot THEN Fail("ServerError", Rollback(d, d3))
       ELSE IF ~commitOk THEN Fail("PersistenceFailure", Rollback(d, d4))
       ELSE Done(Commit(d, d4))

\* make_payment, POST, for one request
make_payment_req(u, rid, method, commitOk) ==
        /\ Authenticated(u)
        /\ NextId(db.payments) <= MaxPayId
        /\ IF rid \notin DOMAIN db.reservations
           THEN /\ UNCHANGED <<db, session, ledger>>
                /\ last' = Resp("settle", "NotFound", u, rid)
           ELSE IF session[u] = NoQuote
           THEN /\ UNCHANGED <<db, session, ledger>>
                /\ last' = Resp("settle", "SessionExpired", u, rid)
           ELSE IF session[u].total_cost = 0
           THEN /\ UNCHANGED <<db, session, ledger>>
                /\ last' = Resp("settle", "ValidationError", u, rid)
           ELSE LET t == make_payment_tx(db, rid, session[u], method, commitOk)
                IN /\ db' = t.db
                   /\ ledger' = IF t.ok
                                 THEN Put(ledger, NextId(db.payments),
                                          db.spots[db.reservations[rid].spot_id].lot_id)
                                 ELSE ledger
                   /\ session' = IF t.ok THEN [session EXCEPT ![u] = NoQuote]
                                 ELSE session
                   /\ last' = Resp("settle", t.err, u, rid)
        /\ Step
        /\ UNCHANGED <<now, loggedIn, form, pending>>

make_payment ==
    \E u \in Payers, rid \in DOMAIN db.reservations, method \in PaymentMethods,
       commitOk \in BOOLEAN :
        make_payment_req(u, rid, method, commitOk)

\* a cancel that leaves the quote in the session
cancel_payment_KeepsQuote ==
    \E u \in Payers :
        /\ Authenticated(u)
        /\ session[u] # NoQuote
        /\ session' = session
        /\ last' = Resp("cancel", "ok", u, 0)
        /\ Step
        /\ UNCHANGED <<db, now, loggedIn, form, pending, ledger>>

\* cancel_payment: the quote is dropped from the session
cancel_payment ==
    \E u \in Payers :
        /\ Authenticated(u)
        /\ session[u] # NoQuote
        /\ session' = [session EXCEPT ![u] = NoQuote]
        /\ last' = Resp("cancel", "ok", u, 0)
        /\ Step
        /\ UNCHANGED <<db, now, loggedIn, form, pending, ledger>>

\* ReservedParkingSpot.payment is a scalar relationship: of several payment
\* rows of a reservation the load returns the first, NULL when there is none
payment(d, rid) ==
    IF PaymentsOf(d, {rid}) = {} THEN NULL
    ELSE CHOOSE p \in PaymentsOf(d, {rid}) : \A q \in PaymentsOf(d, {rid}) : p <= q

PaidReservations(d, u) ==
    {r \in DOMAIN d.reservations :
        /\ d.reservations[r].user_id = u
        /\ payment(d, r) # NULL
        /\ d.payments[payment(d, r)].payment_status = "PAID"}

\* summary: the user's reservations and what the user has paid for them
summary(d, u) ==
    [reservations |-> {r \in DOMAIN d.reservations : d.reservations[r].user_id = u},
     total_spent |-> SumOver(PaidReservations(d, u),
                        [r \in DOMAIN d.reservations |->
                            IF payment(d, r) = NULL THEN 0
                            ELSE d.payments[payment(d, r)].amount])]

\* parking_spot_summary_chart: one bar per paid reservation, labelled with
\* the spot's number or, when the spot is gone, as a deleted spot
parking_spot_summary_chart(d, u) ==
    [r \in PaidReservations(d, u) |->
        [label |-> IF d.reservations[r].spot_id \in DOMAIN d.spots
                   THEN d.spots[d.reservations[r].spot_id].spot_number
                   ELSE <<"Deleted Spot">>,
         amount |-> d.payments[payment(d, r)].amount]]

\* a deletion scheduled for a user who stays active
schedule_deletion_StaysActive(row, t) ==
    [row EXCEPT !.scheduled_delete_at = t + DeletionDelay]

\* User.schedule_deletion
schedule_deletion(row, t) ==
    [row EXCEPT !.scheduled_delete_at = t + DeletionDelay, !.is_active = FALSE]

\* User.cancel_deletion
cancel_deletion(row) ==
    [row EXCEPT !.scheduled_delete_at = NONE, !.is_active = TRUE]

\* profile, POST with delete_profile: schedule the deletion and log out
profile_delete ==
    \E u \in DeletingUsers :
        /\ Authenticated(u)
        /\ db' = Commit(db, [db EXCEPT !.users[u] = schedule_deletion(@, now)])
        /\ loggedIn' = loggedIn \ {u}
        /\ last' = Resp("schedule_deletion", "ok", u, 0)
        /\ Step
        /\ UNCHANGED <<now, session, form, pending, ledger>>

\* delete_scheduled_users: the sweep
users_to_delete(d, t) ==
    {u \in DOMAIN d.users :
        /\ ~d.users[u].is_active
        /\ d.users[u].scheduled_delete_at # NONE
        /\ d.users[u].scheduled_delete_at <= t}

delete_scheduled_users ==
    /\ LET t == DeleteUsers(db, users_to_delete(db, now))
       IN /\ db' = t.db
          /\ last' = Resp("sweep", t.err, "-", 0)
    /\ Step
    /\ UNCHANGED <<now, loggedIn, session, form, pending, ledger>>

\* delete_scheduled_users served concurrently with other requests: the query
\* reads the users to delete, and the deletes are committed afterwards for
\* the rows that were read, by primary key
sweep_begin ==
    /\ pending["sweep"] = NoPending
    /\ pending' = [pending EXCEPT !["sweep"] =
                      [op |-> "sweep", users |-> users_to_delete(db, now)]]
    /\ last' = Resp("sweep_begin", "ok", "-", 0)
    /\ Step
    /\ UNCHANGED <<db, now, loggedIn, session, form, ledger>>

sweep_finish ==
    /\ pending["sweep"] # NoPending
    /\ LET t == DeleteUsers(db, pending["sweep"].users \cap DOMAIN db.users)
       IN /\ db' = t.db
          /\ last' = Resp("sweep", t.err, "-", 0)
    /\ pending' = [pending EXCEPT !["sweep"] = NoPending]
    /\ Step
    /\ UNCHANGED <<now, loggedIn, session, form, ledger>>

\* =================================================== controllers/auth.py
\* a grace period that still holds at the deadline itself
InGracePeriod_AtDeadline(row, t) == t <= row.scheduled_delete_at

\* now < user.scheduled_delete_at
InGracePeriod(row, t) == t < row.scheduled_delete_at

\* a login that admits every inactive user who knows the password
login_req_AdmitsInactive(u, passwordOk) ==
        /\ u \notin loggedIn
        /\ IF u \notin DOMAIN db.users \/ ~passwordOk
           THEN /\ UNCHANGED <<db, loggedIn>>
                /\ last' = Resp("login", "InvalidCredentials", u, 0)
           ELSE /\ db' = db
                /\ loggedIn' = loggedIn \cup {u}
                /\ last' = Resp("login", "ok", u, 0)
        /\ Step
        /\ UNCHANGED <<now, session, form, pending, ledger>>

\* login, POST, for one request
login_req(u, passwordOk) ==
        /\ u \notin loggedIn
        /\ IF u \notin DOMAIN db.users \/ ~passwordOk
           THEN /\ UNCHANGED <<db, loggedIn>>
                /\ last' = Resp("login", "InvalidCredentials", u, 0)
           ELSE IF db.users[u].is_active
           THEN /\ db' = db
                /\ loggedIn' = loggedIn \cup {u}
                /\ last' = Resp("login", "ok", u, 0)
           ELSE IF db.users[u].scheduled_delete_at = NONE
           THEN /\ UNCHANGED <<db, loggedIn>>
                /\ last' = Resp("login", "AccountInactive", u, 0)
           ELSE IF InGracePeriod(db.users[u], now)
           THEN /\ db' = Commit(db, [db EXCEPT !.users[u] = cancel_deletion(@)])
                /\ loggedIn' = loggedIn \cup {u}
                /\ last' = Resp("login", "recovered", u, 0)
           ELSE /\ UNCHANGED <<db, loggedIn>>
                /\ last' = Resp("login", "AccountPermanentlyDeleted", u, 0)
        /\ Step
        /\ UNCHANGED <<now, session, form, pending, ledger>>

login ==
    \E u \in UserIds, passwordOk \in BOOLEAN : login_req(u, passwordOk)

\* login served concurrently with other requests: the user row is read and
\* the deadline compared with the clock, and the recovery is committed
\* afterwards; a login that writes nothing is answered at once
Recovering(u, passwordOk) ==
    /\ u \in DOMAIN db.users /\ passwordOk
    /\ ~db.users[u].is_active
    /\ db.users[u].scheduled_delete_at # NONE
    /\ InGracePeriod(db.users[u], now)

login_begin ==
    \E u \in UserIds, passwordOk \in BOOLEAN :
        /\ pending[u] = NoPending
        /\ IF Recovering(u, passwordOk)
           THEN /\ u \notin loggedIn
                /\ pending' = [pending EXCEPT ![u] = [op |-> "login"]]
                /\ last' = Resp("login_begin", "ok", u, 0)
                /\ Step
                /\ UNCHANGED <<db, now, loggedIn, session, form, ledger>>
           ELSE login_req(u, passwordOk)

\* the UPDATE of a row that the sweep has deleted in between matches no row
\* and the unit of work fails
login_finish ==
    \E u \in UserIds :
        /\ pending[u] # NoPending
        /\ IF u \in DOMAIN db.users
           THEN /\ db' = Commit(db, [db EXCEPT !.users[u] = cancel_deletion(@)])
                /\ loggedIn' = loggedIn \cup {u}
                /\ last' = Resp("login", "recovered", u, 0)
           ELSE /\ UNCHANGED <<db, loggedIn>>
                /\ last' = Resp("login", "ServerError", u, 0)
        /\ pending' = [pending EXCEPT ![u] = NoPending]
        /\ Step
        /\ UNCHANGED <<now, session, form, ledger>>

\* ======================= controllers/admin.py, controllers/api.py: routes
\* the admin is the user create_admin_user stores at start-up; no request
\* writes a role
is_admin(c) == c = AdminId

Refused(c, op, err) ==
    /\ last' = Resp(op, err, c, 0)
    /\ Step
    /\ UNCHANGED <<db, now, loggedIn, session, form, pending, ledger>>

\* a guard that lets every logged-in user through
admin_required_LoginOnly(c, op, f) ==
    IF ~(is_admin(c) \/ Authenticated(c)) THEN Refused(c, op, "Unauthorized")
    ELSE f

\* admin_required: login_required first, then the role, then the handler
admin_required(c, op, f) ==
    IF ~(is_admin(c) \/ Authenticated(c)) THEN Refused(c, op, "Unauthorized")
    ELSE IF ~is_admin(c) THEN Refused(c, op, "Forbidden")
    ELSE f

\* the routes of the admin pages and of the REST API that write lots and
\* spots, as a caller reaches them
AdminPage(c) ==
    \/ admin_required(c, "add_lot", add_parking_lot)
    \/ admin_required(c, "edit_lot", edit_parking_lot)
    \/ admin_required(c, "delete_lot", delete_parking_lot)
    \/ admin_required(c, "delete_spot", view_delete_spot)

AdminApi(c) ==
    \/ admin_required(c, "api_add_lot", ParkingLotApi_post)
    \/ admin_required(c, "api_put_lot", ParkingLotApi_put)
    \/ admin_required(c, "api_delete_lot", ParkingLotApi_delete)
    \/ admin_required(c, "api_delete_spot", ParkingSpotApi_delete)
    \/ admin_required(c, "api_put_spot", ParkingSpotApi_put)

admin_bp == \E c \in Callers : AdminPage(c)

api_bp == \E c \in Callers : AdminApi(c)

\* the store right after start-up, after the admin has created a first lot,
\* after a first vehicle has been parked in it, and after that vehicle has
\* left and paid; the later stores are built by the handlers' own units of
\* work
LotStores(n) ==
    {add_parking_lot_tx(EmptyStore, price, n, hours, TRUE).db :
        price \in Prices, hours \in OpenHours}

ParkedStores(n) ==
    {reserve_spot_tx(d,
        reserve_spot_reads(d, [lot_id |-> 1, spot_id |-> 1, user_id |-> u], "V1").p,
        0, TRUE).db : d \in LotStores(n), u \in UserIds}

SettledStores(n) ==
    UNION {{make_payment_tx(d, 1, q, m, TRUE).db : q \in Quotes(d, 1, HourSeconds)} :
              d \in ParkedStores(n), m \in PaymentMethods}

InitStores ==
    {EmptyStore} \cup LotStores(MaxCapacity) \cup ParkedStores(MaxCapacity)
        \cup SettledStores(MaxCapacity)

Init ==
    /\ db \in InitStores
    /\ budget = MaxSteps
    /\ ledger = [p \in DOMAIN db.payments |-> 1]
    /\ now = HourSeconds
    /\ loggedIn = UserIds
    /\ session = [u \in UserIds |-> NoQuote]
    /\ form = [u \in UserIds |-> NoForm]
    /\ pending = [u \in UserIds |-> NoPending]
    /\ last = Resp("init", "ok", "-", 0)

\* ------------------------------------------------------------ behaviours
Next ==
    \/ Tick
    \/ add_parking_lot
    \/ edit_parking_lot
    \/ delete_parking_lot
    \/ view_delete_spot
    \/ ParkingLotApi_delete
    \/ ParkingSpotApi_delete
    \/ ParkingSpotApi_put
    \/ reserve_spot_get
    \/ reserve_spot_post
    \/ released
    \/ make_payment
    \/ cancel_payment
    \/ profile_delete
    \/ delete_scheduled_users
    \/ login

Spec == Init /\ [][Next]_vars

\* the requests of the users and the sweep, without the admin's
NextUsers ==
    \/ Tick
    \/ reserve_spot_get
    \/ reserve_spot_post
    \/ released
    \/ make_payment
    \/ cancel_payment
    \/ profile_delete
    \/ delete_scheduled_users
    \/ login

SpecUsers == Init /\ [][NextUsers]_vars

\* reserve requests served concurrently, from a store in which a vehicle has
\* parked and left
InitConc ==
    /\ db \in SettledStores(1)
    /\ budget = MaxConcSteps
    /\ ledger = [p \in DOMAIN db.payments |-> 1]
    /\ now = HourSeconds
    /\ loggedIn = UserIds
    /\ session = [u \in UserIds |-> NoQuote]
    /\ form = [u \in UserIds |-> NoForm]
    /\ pending = [u \in UserIds |-> NoPending]
    /\ last = Resp("init", "ok", "-", 0)

NextConc ==
    \/ reserve_spot_get
    \/ reserve_post_begin
    \/ reserve_post_finish

SpecConc == InitConc /\ [][NextConc]_vars

\* reserve requests served one after the other against a lot that has more
\* than one spot
InitReserve ==
    /\ db \in LotStores(MaxCapacity + 1)
    /\ budget = MaxConcSteps
    /\ ledger = [p \in DOMAIN db.payments |-> 1]
    /\ now = HourSeconds
    /\ loggedIn = UserIds
    /\ session = [u \in UserIds |-> NoQuote]
    /\ form = [u \in UserIds |-> NoForm]
    /\ pending = [u \in UserIds |-> NoPending]
    /\ last = Resp("init", "ok", "-", 0)

NextReserve ==
    \/ reserve_spot_get
    \/ reserve_spot_post

SpecReserve == InitReserve /\ [][NextReserve]_vars

\* reserve requests around the closing time of a lot that is open for the
\* first hour of the day
InitHours ==
    /\ db \in {add_parking_lot_tx(EmptyStore, price, MaxCapacity, hours, TRUE).db :
                  price \in Prices, hours \in ShortHours}
    /\ budget = MaxConcSteps
    /\ ledger = [p \in DOMAIN db.payments |-> 1]
    /\ now = HourSeconds
    /\ loggedIn = UserIds
    /\ session = [u \in UserIds |-> NoQuote]
    /\ form = [u \in UserIds |-> NoForm]
    /\ pending = [u \in UserIds |-> NoPending]
    /\ last = Resp("init", "ok", "-", 0)

NextHours ==
    \/ TickHour
    \/ reserve_spot_get
    \/ reserve_spot_post

SpecHours == InitHours /\ [][NextHours]_vars

\* the admin's requests that create and delete lots and move spots
InitLots ==
    /\ db \in LotStores(MaxCapacity) \cup ParkedStores(MaxCapacity)
    /\ budget = MaxConcSteps
    /\ ledger = [p \in DOMAIN db.payments |-> 1]
    /\ now = HourSeconds
    /\ loggedIn = UserIds
    /\ session = [u \in UserIds |-> NoQuote]
    /\ form = [u \in UserIds |-> NoForm]
    /\ pending = [u \in UserIds |-> NoPending]
    /\ last = Resp("init", "ok", "-", 0)

NextLots ==
    \/ add_parking_lot
    \/ ParkingLotApi_post
    \/ delete_parking_lot
    \/ ParkingLotApi_delete
    \/ ParkingSpotApi_put

SpecLots == InitLots /\ [][NextLots]_vars

\* the admin's edits of a lot, by the page and by the API
InitEdit ==
    /\ db \in LotStores(MaxCapacity) \cup ParkedStores(MaxCapacity)
                \cup SettledStores(MaxCapacity)
    /\ budget = MaxSteps
    /\ ledger = [p \in DOMAIN db.payments |-> 1]
    /\ now = HourSeconds
    /\ loggedIn = UserIds
    /\ session = [u \in UserIds |-> NoQuote]
    /\ form = [u \in UserIds |-> NoForm]
    /\ pending = [u \in UserIds |-> NoPending]
    /\ last = Resp("init", "ok", "-", 0)

NextEdit ==
    \/ edit_parking_lot
    \/ ParkingLotApi_put

SpecEdit == InitEdit /\ [][NextEdit]_vars

\* logins against the user records a login can meet: active, inactive with
\* no deletion scheduled, and inactive with the deadline ahead or reached
UserRows ==
    {[is_active |-> TRUE, scheduled_delete_at |-> NONE],
     [is_active |-> FALSE, scheduled_delete_at |-> NONE],
     [is_active |-> FALSE, scheduled_delete_at |-> HourSeconds],
     [is_active |-> FALSE, scheduled_delete_at |-> HourSeconds + DeletionDelay]}

InitLogin ==
    /\ \E rows \in [UserIds -> UserRows] : db = [EmptyStore EXCEPT !.users = rows]
    /\ budget = MaxSteps
    /\ ledger = [p \in DOMAIN db.payments |-> 1]
    /\ now = HourSeconds
    /\ loggedIn = {}
    /\ session = [u \in UserIds |-> NoQuote]
    /\ form = [u \in UserIds |-> NoForm]
    /\ pending = [u \in UserIds |-> NoPending]
    /\ last = Resp("init", "ok", "-", 0)

NextLogin == login

SpecLogin == InitLogin /\ [][NextLogin]_vars

\* the sweep and the logins, from stores in which some users have just
\* scheduled their deletion
ScheduledStores ==
    {[d EXCEPT !.users = [u \in DOMAIN @ |->
                            IF u \in S THEN schedule_deletion(@[u], HourSeconds) ELSE @[u]]] :
        d \in InitStores, S \in SUBSET UserIds \ {{}}}

InitSweep ==
    /\ db \in ScheduledStores
    /\ budget = MaxConcSteps
    /\ ledger = [p \in DOMAIN db.payments |-> 1]
    /\ now = HourSeconds
    /\ loggedIn = {u \in UserIds : db.users[u].is_active}
    /\ session = [u \in UserIds |-> NoQuote]
    /\ form = [u \in UserIds |-> NoForm]
    /\ pending = [u \in UserIds |-> NoPending]
    /\ last = Resp("init", "ok", "-", 0)

NextSweep ==
    \/ Tick
    \/ delete_scheduled_users
    \/ login

SpecSweep == InitSweep /\ [][NextSweep]_vars

\* the sweep running between the requests of the users, a reserve POST being
\* served in two steps
InitSweepConc ==
    /\ db \in ScheduledStores
    /\ budget = MaxSteps
    /\ ledger = [p \in DOMAIN db.payments |-> 1]
    /\ now = HourSeconds
    /\ loggedIn = {u \in UserIds : db.users[u].is_active}
    /\ session = [u \in UserIds |-> NoQuote]
    /\ form = [u \in UserIds |-> NoForm]
    /\ pending = [u \in UserIds |-> NoPending]
    /\ last = Resp("init", "ok", "-", 0)

NextSweepConc ==
    \/ Tick
    \/ delete_scheduled_users
    \/ reserve_spot_get
    \/ reserve_post_begin
    \/ reserve_post_finish
    \/ released
    \/ make_payment

SpecSweepConc == InitSweepConc /\ [][NextSweepConc]_vars

\* logins and the sweep served concurrently, one second before the deadline
\* of the deletions that are scheduled
InitRecover ==
    /\ db \in ScheduledStores
    /\ budget = MaxConcSteps
    /\ ledger = [p \in DOMAIN db.payments |-> 1]
    /\ now = HourSeconds + DeletionDelay - 1
    /\ loggedIn = {u \in UserIds : db.users[u].is_active}
    /\ session = [u \in UserIds |-> NoQuote]
    /\ form = [u \in UserIds |-> NoForm]
    /\ pending = [p \in UserIds \cup {"sweep"} |-> NoPending]
    /\ last = Resp("init", "ok", "-", 0)

NextRecover ==
    \/ TickSecond
    \/ login_begin
    \/ login_finish
    \/ sweep_begin
    \/ sweep_finish

SpecRecover == InitRecover /\ [][NextRecover]_vars

\* the routes that write lots and spots, called by the admin, by the users
\* and by callers who are not logged in
InitAdmin ==
    /\ db \in LotStores(MaxCapacity) \cup SettledStores(MaxCapacity)
    /\ budget = MaxSteps
    /\ ledger = [p \in DOMAIN db.payments |-> 1]
    /\ now = HourSeconds
    /\ loggedIn = UserIds
    /\ session = [u \in UserIds |-> NoQuote]
    /\ form = [u \in UserIds |-> NoForm]
    /\ pending = [u \in UserIds |-> NoPending]
    /\ last = Resp("init", "ok", "-", 0)

NextAdmin ==
    \/ admin_bp
    \/ api_bp

SpecAdmin == InitAdmin /\ [][NextAdmin]_vars

\* every request of the admin, through the pages and through the API, among
\* the requests of the users and the sweep, from a store with a lot of one
\* spot in which a vehicle is parked or has left and paid
InitAll ==
    /\ db \in ParkedStores(1) \cup SettledStores(1)
    /\ budget = MaxSteps
    /\ ledger = [p \in DOMAIN db.payments |-> 1]
    /\ now = HourSeconds
    /\ loggedIn = UserIds
    /\ session = [u \in UserIds |-> NoQuote]
    /\ form = [u \in UserIds |-> NoForm]
    /\ pending = [u \in UserIds |-> NoPending]
    /\ last = Resp("init", "ok", "-", 0)

NextAll ==
    \/ Tick
    \/ add_parking_lot
    \/ edit_parking_lot
    \/ delete_parking_lot
    \/ view_delete_spot
    \/ ParkingLotApi_post
    \/ ParkingLotApi_put
    \/ ParkingLotApi_delete
    \/ ParkingSpotApi_delete
    \/ ParkingSpotApi_put
    \/ reserve_spot_get
    \/ reserve_spot_post
    \/ released
    \/ make_payment
    \/ cancel_payment
    \/ profile_delete
    \/ delete_scheduled_users
    \/ login

SpecAll == InitAll /\ [][NextAll]_vars

\* the requests of a user who parks, asks for quotes and pays, in a lot with
\* room for a second vehicle
InitPay ==
    /\ db \in ParkedStores(MaxCapacity + 1) \cup SettledStores(MaxCapacity + 1)
    /\ budget = MaxConcSteps
    /\ ledger = [p \in DOMAIN db.payments |-> 1]
    /\ now = HourSeconds
    /\ loggedIn = UserIds
    /\ session = [u \in UserIds |-> NoQuote]
    /\ form = [u \in UserIds |-> NoForm]
    /\ pending = [u \in UserIds |-> NoPending]
    /\ last = Resp("init", "ok", "-", 0)

NextPay ==
    \/ reserve_spot_get
    \/ reserve_spot_post
    \/ released
    \/ make_payment
    \/ cancel_payment

SpecPay == InitPay /\ [][NextPay]_vars

\* quotes for a vehicle parked at time 0, asked at the times and for the
\* hourly prices of the input sets
QuoteStores ==
    {reserve_spot_tx(d,
        reserve_spot_reads(d, [lot_id |-> 1, spot_id |-> 1, user_id |-> u], "V1").p,
        0, TRUE).db :
            d \in {add_parking_lot_tx(EmptyStore, price, 1, hours, TRUE).db :
                      price \in QuotePrices, hours \in OpenHours},
            u \in Payers}

InitQuote ==
    /\ db \in QuoteStores
    /\ now \in QuoteTimes
    /\ budget = MaxSteps
    /\ ledger = [p \in DOMAIN db.payments |-> 1]
    /\ loggedIn = UserIds
    /\ session = [u \in UserIds |-> NoQuote]
    /\ form = [u \in UserIds |-> NoForm]
    /\ pending = [u \in UserIds |-> NoPending]
    /\ last = Resp("init", "ok", "-", 0)

NextQuote == released

SpecQuote == InitQuote /\ [][NextQuote]_vars

\* ================================================================ claims
\* the reservations without a leaving_timestamp that reference a spot
ActiveOn(d, sid) ==
    {r \in DOMAIN d.reservations :
        /\ d.reservations[r].spot_id = sid
        /\ d.reservations[r].leaving_timestamp = NONE}

\* a settle request for a reservation, made with a quote in the session
SettleRequest(rid) ==
    \E u \in Payers, method \in PaymentMethods, commitOk \in BOOLEAN :
        /\ session[u] # NoQuote
        /\ session[u].total_cost # 0
        /\ make_payment_req(u, rid, method, commitOk)

\* the payments and the reservations a step adds, the reservation a new
\* payment settles, and the step of a successful settle
NewPayments == DOMAIN db'.payments \ DOMAIN db.payments

NewReservations == DOMAIN db'.reservations \ DOMAIN db.reservations

SettledBy(pid) == db'.payments[pid].reservation_id

SettleOk == last'.op = "settle" /\ last'.res = "ok"

\* C1: in every reachable state a spot's status is OCCUPIED exactly when
\* one reservation that references the spot has no leaving_timestamp
C1_OccupiedIffOneActive ==
    \A sid \in DOMAIN db.spots :
        db.spots[sid].status = "O" <=> Cardinality(ActiveOn(db, sid)) = 1

\* C2: for every vehicle number at most one reservation has no
\* leaving_timestamp, also when reserve requests interleave
C2_OneActivePerVehicle ==
    \A vnum \in VehicleInputs : Cardinality(ActiveFor(db, vnum)) <= 1

\* C3: a settle request that carries a quote and targets a reservation
\* whose leaving_timestamp is already set is refused and changes nothing:
\* no second payment, no revenue added, the leaving_timestamp kept
C3_LeftReservationNotSettled ==
    [][\A rid \in DOMAIN db.reservations :
          (db.reservations[rid].leaving_timestamp # NONE /\ SettleRequest(rid))
             => (last'.res # "ok" /\ db' = db)]_vars

\* every COMPLETED reservation has a PAID payment
C4_CompletedHasPaid ==
    \A r \in DOMAIN db.reservations :
        db.reservations[r].status = "COMPLETED"
            => \E pid \in PaymentsOf(db, {r}) : db.payments[pid].payment_status = "PAID"

\* a new PAID payment whose reservation the step leaves COMPLETED on a spot
\* among S
PaidCompletedOn(pid, S) ==
    /\ db'.payments[pid].payment_status = "PAID"
    /\ SettledBy(pid) \in DOMAIN db'.reservations
    /\ db'.reservations[SettledBy(pid)].status = "COMPLETED"
    /\ db'.reservations[SettledBy(pid)].spot_id \in S

\* the revenue of a spot or of a lot moves only with such a payment
C4_RevenueStep ==
    /\ \A sid \in DOMAIN db.spots \cap DOMAIN db'.spots :
          db'.spots[sid].revenue # db.spots[sid].revenue
             => \E pid \in NewPayments : PaidCompletedOn(pid, {sid})
    /\ \A lid \in DOMAIN db.lots \cap DOMAIN db'.lots :
          db'.lots[lid].revenue # db.lots[lid].revenue
             => \E pid \in NewPayments : PaidCompletedOn(pid, SpotsOf(db', lid))

\* C4: in every reachable state every COMPLETED reservation has a PAID
\* payment, and no step adds revenue to a spot or to a lot on behalf of a
\* reservation that is not COMPLETED
C4_CompletedIsPaid == [](C4_CompletedHasPaid) /\ [][C4_RevenueStep]_vars

C4_Witness ==
    /\ last = [op |-> "settle", res |-> "ok"]
    /\ \E r \in DOMAIN db.reservations, lid \in DOMAIN db.lots :
          /\ db.reservations[r].status = "COMPLETED"
          /\ db.lots[lid].revenue > 0

\* the changes of a settlement are all present after the step
AllChanged(pid) ==
    LET rid == SettledBy(pid)
        sid == db.reservations[rid].spot_id
        lid == db.spots[sid].lot_id
    IN /\ rid \in DOMAIN db.reservations
       /\ sid \in DOMAIN db.spots
       /\ lid \in DOMAIN db.lots
       /\ db'.reservations[rid].leaving_timestamp # NONE
       /\ db'.reservations[rid].status = "COMPLETED"
       /\ db'.spots[sid].status = "A"
       /\ ~db'.spots[sid].is_covered
       /\ db'.spots[sid].revenue > db.spots[sid].revenue
       /\ db'.lots[lid].revenue > db.lots[lid].revenue
       /\ db'.payments[pid].payment_status = "PAID"

\* C5: a settle request is all or nothing: when it fails (at the spot or lot
\* lookup, or at the commit) the store is left as it was; when it succeeds
\* the leaving_timestamp, the reservation status, the spot's status, covered
\* flag and revenue, the lot's revenue and the payment have all changed
C5_SettleAllOrNothing ==
    [][last'.op = "settle" =>
          IF last'.res = "ok"
          THEN Cardinality(NewPayments) = 1 /\ \A pid \in NewPayments : AllChanged(pid)
          ELSE db' = db]_vars

C5_Witness ==
    /\ last.op = "settle"
    /\ last.res \in {"ServerError", "PersistenceFailure"}
    /\ \E u \in Payers : session[u] # NoQuote
    /\ \E r \in DOMAIN db.reservations : db.reservations[r].status = "ACTIVE"

\* C6, as the claim states it: a successful settle sets the reservation's
\* leaving_timestamp to the time of the settlement
C6_LeavesAtSettlement ==
    [][SettleOk =>
          \A pid \in NewPayments :
              db'.reservations[SettledBy(pid)].leaving_timestamp = now]_vars

\* the store after a settlement made with quote q, and no other change
SettleEffects(pid, q) ==
    LET rid == SettledBy(pid)
        sid == db.reservations[rid].spot_id
        lid == db.spots[sid].lot_id
    IN db' = [db EXCEPT
                 !.reservations[rid].leaving_timestamp = q.leaving_timestamp,
                 !.reservations[rid].status = "COMPLETED",
                 !.spots[sid].status = "A",
                 !.spots[sid].is_covered = FALSE,
                 !.spots[sid].revenue = @ + q.total_cost,
                 !.lots[lid].revenue = @ + q.total_cost,
                 !.payments = Put(@, pid,
                     [reservation_id |-> rid, amount |-> q.total_cost,
                      payment_method |-> db'.payments[pid].payment_method,
                      payment_status |-> "PAID"])]

\* C6, amended: a successful settle of an ACTIVE reservation sets its
\* leaving_timestamp to the time of the quote kept in the session, which is
\* not later than the settlement, sets the status to COMPLETED, makes the
\* spot AVAILABLE and uncovered, adds the quoted amount to the spot's and to
\* the lot's revenue, and adds one PAID payment of that amount
C6_LeavesAtQuote ==
    [][SettleOk =>
          /\ Cardinality(NewPayments) = 1
          /\ \A pid \in NewPayments :
                db.reservations[SettledBy(pid)].status = "ACTIVE"
                   => \E u \in Payers :
                         /\ session[u].leaving_timestamp <= now
                         /\ session[u].leaving_timestamp # NONE
                         /\ SettleEffects(pid, session[u])]_vars

C6_Witness ==
    /\ last = [op |-> "settle", res |-> "ok"]
    /\ \E r \in DOMAIN db.reservations :
          /\ db.reservations[r].status = "COMPLETED"
          /\ db.reservations[r].leaving_timestamp # NONE
          /\ db.reservations[r].leaving_timestamp < now

\* the amount of a new payment is the amount its step adds to the spot's
\* revenue and to the lot's revenue
C7_SameAmount ==
    \A pid \in NewPayments :
        LET rid == SettledBy(pid)
            sid == db.reservations[rid].spot_id
            lid == db.spots[sid].lot_id
            amount == db'.payments[pid].amount
        IN /\ amount > 0
           /\ db'.spots[sid].revenue - db.spots[sid].revenue = amount
           /\ db'.lots[lid].revenue - db.lots[lid].revenue = amount

\* the PAID payments settled on the spots of a lot
PaidOn(lid) ==
    {pid \in DOMAIN db.payments :
        ledger[pid] = lid /\ db.payments[pid].payment_status = "PAID"}

C7_LotRevenueIsSum ==
    \A lid \in DOMAIN db.lots :
        db.lots[lid].revenue =
            SumOver(PaidOn(lid), [pid \in DOMAIN db.payments |-> db.payments[pid].amount])

\* C7: a successful settle stores in the payment, adds to the spot's revenue
\* and adds to the lot's revenue one and the same amount, and the revenue of
\* every lot is the sum of the PAID payments settled on its spots
C7_OneAmount == [](C7_LotRevenueIsSum) /\ [][C7_SameAmount]_vars

C7_Witness ==
    /\ last = [op |-> "settle", res |-> "ok"]
    /\ \E lid \in DOMAIN db.lots : Cardinality(PaidOn(lid)) >= 2

\* each reservation has at most one payment, and every payment references a
\* reservation that is COMPLETED
C8_OnePaymentEach ==
    /\ \A r \in DOMAIN db.reservations : Cardinality(PaymentsOf(db, {r})) <= 1
    /\ \A pid \in DOMAIN db.payments :
          /\ db.payments[pid].reservation_id \in DOMAIN db.reservations
          /\ db.reservations[db.payments[pid].reservation_id].status = "COMPLETED"

\* a payment is added by the step that completes its reservation
C8_PaidWhenCompleted ==
    \A pid \in NewPayments :
        /\ db.reservations[SettledBy(pid)].status = "ACTIVE"
        /\ db'.reservations[SettledBy(pid)].status = "COMPLETED"

\* C8: payments are one-to-one with completed reservations: each reservation
\* has at most one payment, every payment references a COMPLETED
\* reservation, and a payment is added only by the step that completes its
\* reservation
C8_OneToOne == [](C8_OnePaymentEach) /\ [][C8_PaidWhenCompleted]_vars

\* C9: of the reserve requests that run together against a lot with one
\* AVAILABLE spot one succeeds: a reserve succeeds only on a spot that is
\* still AVAILABLE when it commits
C9_AvailableAtCommit ==
    [][(last'.op = "reserve" /\ last'.res = "ok") =>
          \A rid \in NewReservations :
              db.spots[db'.reservations[rid].spot_id].status = "A"]_vars

\* the store after a reserve that added reservation rid, and no other change
ReserveEffects(rid) ==
    LET row == db'.reservations[rid]
        sid == row.spot_id
        vkey == Strip(row.vehicle_number)
    IN /\ sid \in DOMAIN db.spots
       /\ db'.spots[sid].status = "O"
       /\ row.status = "ACTIVE"
       /\ row.leaving_timestamp = NONE
       /\ vkey \in DOMAIN db'.vehicles
       /\ db' = [db EXCEPT
                    !.vehicles = IF row.vehicle_number \in DOMAIN @ THEN @
                                 ELSE Put(@, vkey, db'.vehicles[vkey]),
                    !.reservations = Put(@, rid, row),
                    !.spots[sid].status = "O",
                    !.spots[sid].is_covered = TRUE]

\* C10: a reserve request that fails leaves the store as it was; one that
\* succeeds stores the reservation and marks its spot OCCUPIED in the same
\* step, adds the vehicle when it is new, and changes nothing else
C10_ReserveAtomic ==
    [][last'.op = "reserve" =>
          IF last'.res = "ok"
          THEN Cardinality(NewReservations) = 1
               /\ \A rid \in NewReservations : ReserveEffects(rid)
          ELSE db' = db]_vars

C10_Witness ==
    /\ last.op = "reserve"
    /\ last.res \in {"IntegrityError", "NotFound", "PersistenceFailure"}

\* the user whose reserve form a step consumes
Reserving(u) == form[u] # NoForm /\ form'[u] = NoForm

\* C11: a reserve for a lot that succeeds occupies a spot of that lot that
\* was AVAILABLE right before the step; a reserve for a lot that has no
\* AVAILABLE spot fails with LotFull and leaves the store as it was
C11_OccupiesAvailableSpotOfLot ==
    [][last'.op = "reserve" =>
          \A u \in UserIds :
              (Reserving(u) /\ form[u].lot_id \in DOMAIN db.lots) =>
                  /\ last'.res = "ok" =>
                        \A rid \in NewReservations :
                            LET sid == db'.reservations[rid].spot_id
                            IN /\ sid \in SpotsOf(db, form[u].lot_id)
                               /\ db.spots[sid].status = "A"
                               /\ db'.spots[sid].status = "O"
                  /\ AvailableSpots(db, form[u].lot_id) = {} =>
                        (last'.res = "LotFull" /\ db' = db)]_vars

\* the time of the day is within the opening hours of a lot
IsOpen(d, lid, t) ==
    d.lots[lid].open_time <= TimeOfDay(t) /\ TimeOfDay(t) <= d.lots[lid].close_time

\* C12: a reserve stores a reservation only when the time of the day at the
\* moment of the request is within the lot's open_time .. close_time; outside
\* of them it fails with OutsideOperatingHours and leaves the store as it was
C12_ReservesInsideOpeningHours ==
    [][last'.op = "reserve" =>
          \A u \in UserIds :
              (Reserving(u) /\ form[u].lot_id \in DOMAIN db.lots) =>
                  /\ NewReservations # {} => IsOpen(db, form[u].lot_id, now)
                  /\ ~IsOpen(db, form[u].lot_id, now) =>
                        (last'.res = "OutsideOperatingHours" /\ db' = db)]_vars

\* C13: a quote request is read-only: whether it succeeds or fails, and
\* however many times it is made, it leaves every stored record as it was
C13_QuoteReadOnly == [][last'.op = "quote" => db' = db]_vars

C13_Witness ==
    /\ last = [op |-> "quote", res |-> "ok"]
    /\ \E u \in Payers :
          /\ session[u] # NoQuote
          /\ session[u].rid \in DOMAIN db.reservations
          /\ db.reservations[session[u].rid].leaving_timestamp = NONE
          /\ db.reservations[session[u].rid].status = "ACTIVE"

\* C14: a cancel made after a quote discards the quote and leaves the store
\* as it was, so the reservation stays ACTIVE and its spot OCCUPIED; a settle
\* made with no quote in the session, as after a cancel that was not
\* followed by a new quote, is refused and leaves the store as it was
C14_CancelDiscardsQuote ==
    [][/\ last'.op = "cancel" =>
             /\ db' = db
             /\ \E u \in Payers : session[u] # NoQuote /\ session'[u] = NoQuote
       /\ \A u \in Payers, rid \in DOMAIN db.reservations,
             method \in PaymentMethods, commitOk \in BOOLEAN :
             (session[u] = NoQuote /\ make_payment_req(u, rid, method, commitOk))
                => (last'.res = "SessionExpired" /\ db' = db)]_vars

C14_Witness ==
    /\ last = [op |-> "cancel", res |-> "ok"]
    /\ \A u \in Payers : session[u] = NoQuote
    /\ \E r \in DOMAIN db.reservations :
          /\ db.reservations[r].status = "ACTIVE"
          /\ db.reservations[r].spot_id \in DOMAIN db.spots
          /\ db.spots[db.reservations[r].spot_id].status = "O"

Abs(x) == IF x < 0 THEN -x ELSE x

\* the quote q, made for reservation row r, is the duration rounded to the
\* nearest hundredth of an hour and the cost of that rounded duration at the
\* reservation's hourly price rounded to the nearest hundredth
RoundedQuote(q, r) ==
    LET seconds == q.leaving_timestamp - r.parking_timestamp
    IN /\ 2 * Abs(q.duration * HourSeconds - seconds * 100) <= HourSeconds
       /\ 2 * Abs(q.total_cost * 100 - q.duration * r.parking_cost_per_hour) <= 100
       /\ seconds = 0 => (q.duration = 0 /\ q.total_cost = 0)
       /\ (seconds = 2 * HourSeconds /\ r.parking_cost_per_hour = 1000)
             => (q.duration = 200 /\ q.total_cost = 2000)

\* C15: a quote made at time t is durationHours = (t - parking_timestamp) /
\* 3600 rounded to two decimals and estimatedCost = durationHours *
\* parking_cost_per_hour rounded to two decimals; a quote at the parking
\* time is 0.00 hours and 0.00, and two hours at 10.00 an hour are 2.00 hours
\* and 20.00
C15_QuoteRounded ==
    \A u \in Payers :
        session[u] # NoQuote => RoundedQuote(session[u], db.reservations[session[u].rid])

C15_Witness ==
    \E u \in Payers :
        /\ session[u] # NoQuote
        /\ LET q == session[u]
               r == db.reservations[q.rid]
           IN /\ q.duration * HourSeconds # (q.leaving_timestamp - r.parking_timestamp) * 100
              /\ q.total_cost * 100 > q.duration * r.parking_cost_per_hour
              /\ q.total_cost > 0

\* the hourly price a reservation row was stored with
StoredPrice(d, rid) == d.reservations[rid].parking_cost_per_hour

\* C16: a reservation is stored with the hourly price its lot has at the
\* time of the reserve, and no step changes that stored price; a quote is
\* the cost at the stored price and a settlement charges the quoted cost, so
\* a price edit of the lot made after the reserve changes neither
C16_PriceFixedAtReserve ==
    [][/\ \A rid \in DOMAIN db.reservations \cap DOMAIN db'.reservations :
             StoredPrice(db', rid) = StoredPrice(db, rid)
       /\ last'.op = "reserve" =>
             \A u \in UserIds, rid \in NewReservations :
                 Reserving(u) =>
                     StoredPrice(db', rid) = db.lots[form[u].lot_id].price_per_hour
       /\ (last'.op = "quote" /\ last'.res = "ok") =>
             \A u \in Payers :
                 session'[u] # session[u] =>
                     session'[u].total_cost \in
                         TotalCost(session'[u].duration, StoredPrice(db, session'[u].rid))
       /\ SettleOk =>
             \A pid \in NewPayments :
                 \E u \in Payers : db'.payments[pid].amount = session[u].total_cost]_vars

C16_Witness ==
    /\ last = [op |-> "settle", res |-> "ok"]
    /\ \E pid \in DOMAIN db.payments, lid \in DOMAIN db.lots :
          LET rid == db.payments[pid].reservation_id
              r == db.reservations[rid]
              hours == DurationHours(r.leaving_timestamp - r.parking_timestamp)
          IN /\ rid \in DOMAIN db.reservations
             /\ ledger[pid] = lid
             /\ db.lots[lid].price_per_hour # r.parking_cost_per_hour
             /\ \E h \in hours : db.payments[pid].amount \in TotalCost(h, r.parking_cost_per_hour)
             /\ \A h \in hours : db.payments[pid].amount \notin TotalCost(h, db.lots[lid].price_per_hour)

NewVehicles == DOMAIN db'.vehicles \ DOMAIN db.vehicles

\* C17: a reserve adds a vehicle row only for a vehicle number that has no
\* row yet, at most one, for the number of the new reservation and owned by
\* the user the reservation is made for; every vehicle row that exists is
\* left as it was
C17_VehicleCreatedOnce ==
    [][last'.op = "reserve" =>
          /\ \A v \in DOMAIN db.vehicles :
                v \in DOMAIN db'.vehicles /\ db'.vehicles[v] = db.vehicles[v]
          /\ Cardinality(NewVehicles) <= 1
          /\ \A v \in NewVehicles :
                /\ db'.vehicles[v].user_id \in UserIds
                /\ \E rid \in NewReservations :
                      /\ Strip(db'.reservations[rid].vehicle_number) = v
                      /\ db'.reservations[rid].user_id = db'.vehicles[v].user_id]_vars

C17_Witness ==
    /\ last = [op |-> "reserve", res |-> "ok"]
    /\ \E rid \in DOMAIN db.reservations :
          LET r == db.reservations[rid]
          IN /\ r.status = "ACTIVE"
             /\ r.vehicle_number \in DOMAIN db.vehicles
             /\ db.vehicles[r.vehicle_number].user_id # r.user_id

\* a COMPLETED reservation has left
C18_CompletedHasLeft ==
    \A rid \in DOMAIN db.reservations :
        db.reservations[rid].status = "COMPLETED"
            => db.reservations[rid].leaving_timestamp # NONE

\* a reservation that is COMPLETED before a step is COMPLETED after it
C18_CompletedStays ==
    \A rid \in DOMAIN db.reservations \cap DOMAIN db'.reservations :
        db.reservations[rid].status = "COMPLETED"
            => /\ db'.reservations[rid].status = "COMPLETED"
               /\ db'.reservations[rid].leaving_timestamp # NONE

\* C18: a reservation never goes back from COMPLETED: once COMPLETED, every
\* later step leaves its status COMPLETED and its leaving_timestamp set
C18_CompletedIsFinal == [](C18_CompletedHasLeft) /\ [][C18_CompletedStays]_vars

C18_Witness ==
    /\ last = [op |-> "settle", res |-> "ok"]
    /\ \E rid \in DOMAIN db.reservations :
          /\ db.reservations[rid].status = "COMPLETED"
          /\ db.reservations[rid].leaving_timestamp # NONE
          /\ Cardinality(PaymentsOf(db, {rid})) >= 2

NewLots == DOMAIN db'.lots \ DOMAIN db.lots

C20_OccupiedLotNotDeleted ==
    [][last'.op \in {"delete_lot", "api_delete_lot"} =>
          IF last'.res = "ok"
          THEN \E lid \in DOMAIN db.lots \ DOMAIN db'.lots :
                  /\ occupied_spots(db, lid) = 0
                  /\ SpotsOf(db', lid) = {}
          ELSE /\ last'.res = "Conflict"
               /\ db' = db
               /\ \E lid \in DOMAIN db.lots : occupied_spots(db, lid) > 0]_vars

DeletedSpots == DOMAIN db.spots \ DOMAIN db'.spots

\* C21: a spot deletion, by the admin page or by the API, succeeds only for
\* a spot that is not OCCUPIED and then removes the spot and lowers the
\* capacity counter of the spot's lot by one; for an OCCUPIED spot it fails
\* with Conflict and leaves the store as it was
C21_OccupiedSpotNotDeleted ==
    [][last'.op \in {"delete_spot", "api_delete_spot"} =>
          IF last'.res = "ok"
          THEN /\ Cardinality(DeletedSpots) = 1
               /\ \A sid \in DeletedSpots :
                     LET lid == db.spots[sid].lot_id
                     IN /\ db.spots[sid].status # "O"
                        /\ lid \in DOMAIN db.lots \cap DOMAIN db'.lots
                        /\ db'.lots[lid].maximum_number_of_spots
                              = db.lots[lid].maximum_number_of_spots - 1
          ELSE /\ last'.res = "Conflict"
               /\ db' = db
               /\ \E sid \in DOMAIN db.spots : db.spots[sid].status = "O"]_vars

\* a step that deletes spots leaves every reservation in the store, blanks
\* the spot reference of those that referenced a deleted spot and changes
\* no other field
ReservationsKept ==
    \A rid \in DOMAIN db.reservations :
        /\ rid \in DOMAIN db'.reservations
        /\ db'.reservations[rid] =
              IF db.reservations[rid].spot_id \in DeletedSpots
              THEN [db.reservations[rid] EXCEPT !.spot_id = NULL]
              ELSE db.reservations[rid]

\* the history and spend queries of every user return after the step what
\* they returned before it, a bar of a deleted spot under its own label
HistoryKept ==
    \A u \in DOMAIN db.users :
        /\ summary(db', u) = summary(db, u)
        /\ DOMAIN parking_spot_summary_chart(db', u)
              = DOMAIN parking_spot_summary_chart(db, u)
        /\ \A r \in DOMAIN parking_spot_summary_chart(db', u) :
              /\ parking_spot_summary_chart(db', u)[r].amount
                    = parking_spot_summary_chart(db, u)[r].amount
              /\ db.reservations[r].spot_id \in DeletedSpots
                    => parking_spot_summary_chart(db', u)[r].label = <<"Deleted Spot">>

\* C22: deleting a spot, directly or with its lot, deletes no reservation:
\* every reservation that referenced the spot is still stored with a null
\* spot reference and its other fields unchanged, and the user's history and
\* spend queries still return it
C22_SpotDeletionKeepsReservations ==
    [][DeletedSpots # {} => (ReservationsKept /\ HistoryKept)]_vars

C22_Witness ==
    /\ last.res = "ok"
    /\ last.op \in {"delete_spot", "api_delete_spot", "delete_lot", "api_delete_lot"}
    /\ \E rid \in DOMAIN db.reservations :
          LET u == db.reservations[rid].user_id
          IN /\ db.reservations[rid].spot_id = NULL
             /\ u \in DOMAIN db.users
             /\ rid \in summary(db, u).reservations
             /\ summary(db, u).total_spent > 0
             /\ rid \in DOMAIN parking_spot_summary_chart(db, u)
             /\ parking_spot_summary_chart(db, u)[rid].label = <<"Deleted Spot">>

\* a lot row with the four editable columns taken from another row
WithEditable(row, new) ==
    [row EXCEPT !.price_per_hour = new.price_per_hour,
                !.open_time = new.open_time,
                !.close_time = new.close_time,
                !.is_active = new.is_active]

\* C23: an edit of a lot, by the admin page or by the API, changes at most
\* the price, the opening and closing time and the active flag of one lot:
\* the capacity and the revenue of the lot, the other lots, the spots, the
\* reservations and the rest of the store are as before
C23_EditChangesEditableOnly ==
    [][last'.op \in {"edit_lot", "api_put_lot"} =>
          /\ DOMAIN db'.lots = DOMAIN db.lots
          /\ Cardinality({l \in DOMAIN db.lots : db'.lots[l] # db.lots[l]}) <= 1
          /\ db' = [db EXCEPT !.lots =
                       [l \in DOMAIN db.lots |-> WithEditable(db.lots[l], db'.lots[l])]]]_vars

C23_Witness ==
    /\ last.op \in {"edit_lot", "api_put_lot"}
    /\ last.res = "ok"
    /\ db.reservations # <<>>
    /\ \E lid \in DOMAIN db.lots :
          /\ db.lots[lid].price_per_hour \in EditPrices
          /\ db.lots[lid].revenue > 0
          /\ SpotsOf(db, lid) # {}

\* a user for whom a deletion is scheduled is inactive
C24_ScheduledIsInactive ==
    \A u \in DOMAIN db.users :
        db.users[u].scheduled_delete_at # NONE => ~db.users[u].is_active

\* scheduling sets the deadline 15 days ahead and deactivates the user who
\* asked for it; the recovery at login clears the deadline and reactivates
C24_ScheduleAndCancel ==
    /\ last'.op = "schedule_deletion" =>
          /\ loggedIn \ loggedIn' # {}
          /\ \A u \in loggedIn \ loggedIn' :
                db'.users[u] = [db.users[u] EXCEPT
                                   !.scheduled_delete_at = now + DeletionDelay,
                                   !.is_active = FALSE]
    /\ (last'.op = "login" /\ last'.res = "recovered") =>
          /\ loggedIn' \ loggedIn # {}
          /\ \A u \in loggedIn' \ loggedIn :
                /\ db.users[u].scheduled_delete_at # NONE
                /\ db'.users[u] = [db.users[u] EXCEPT
                                      !.scheduled_delete_at = NONE,
                                      !.is_active = TRUE]

\* C24: in every reachable state a user whose scheduled_delete_at is set is
\* inactive; scheduling a deletion sets scheduled_delete_at to now + 15 days
\* and is_active to false, and cancelling it clears scheduled_delete_at and
\* sets is_active to true
C24_SoftDeletion == [](C24_ScheduledIsInactive) /\ [][C24_ScheduleAndCancel]_vars

C24_Witness ==
    /\ last = [op |-> "login", res |-> "recovered"]
    /\ \E u \in DeletingUsers :
          /\ u \in loggedIn
          /\ db.users[u] = [is_active |-> TRUE, scheduled_delete_at |-> NONE]

SoftDeleted(d, u) ==
    /\ u \in DOMAIN d.users
    /\ ~d.users[u].is_active
    /\ d.users[u].scheduled_delete_at # NONE

\* C25: a login with valid credentials by a soft-deleted user strictly
\* before the deadline cancels the deletion and logs the user in; at or after
\* the deadline it is refused with AccountPermanentlyDeleted, also while the
\* record is still stored, and no login cancels a deletion whose deadline
\* has passed
C25_RecoveryOnlyBeforeDeadline ==
    [][/\ \A u \in UserIds :
             (SoftDeleted(db, u) /\ login_req(u, TRUE)) =>
                 IF now < db.users[u].scheduled_delete_at
                 THEN /\ last'.res = "recovered"
                      /\ u \in loggedIn'
                      /\ db' = [db EXCEPT !.users[u].scheduled_delete_at = NONE,
                                           !.users[u].is_active = TRUE]
                 ELSE /\ last'.res = "AccountPermanentlyDeleted"
                      /\ u \notin loggedIn'
                      /\ db' = db
       /\ \A u \in DOMAIN db.users \cap DOMAIN db'.users :
             (SoftDeleted(db, u) /\ now >= db.users[u].scheduled_delete_at)
                => db'.users[u] = db.users[u]]_vars

C25_Witness ==
    /\ last = [op |-> "login", res |-> "AccountPermanentlyDeleted"]
    /\ \E u \in DeletingUsers :
          /\ SoftDeleted(db, u)
          /\ now = db.users[u].scheduled_delete_at
          /\ u \notin loggedIn

RefusedLogin ==
    /\ last'.op = "login"
    /\ last'.res \in {"AccountInactive", "AccountPermanentlyDeleted", "InvalidCredentials"}

\* C26: a login with valid credentials by an inactive user for whom no
\* deletion is scheduled is refused with AccountInactive, a login with wrong
\* credentials is refused, and every refused login leaves the user records
\* and the rest of the store as they were and logs nobody in
C26_RefusedLoginChangesNothing ==
    [][/\ \A u \in UserIds, passwordOk \in BOOLEAN :
             login_req(u, passwordOk) =>
                 /\ (/\ passwordOk
                     /\ u \in DOMAIN db.users
                     /\ ~db.users[u].is_active
                     /\ db.users[u].scheduled_delete_at = NONE)
                       => last'.res = "AccountInactive"
                 /\ ~passwordOk => last'.res = "InvalidCredentials"
       /\ RefusedLogin =>
             /\ db' = db
             /\ loggedIn' = loggedIn
             /\ session' = session]_vars

C26_Witness ==
    /\ last = [op |-> "login", res |-> "AccountInactive"]
    /\ \E u \in UserIds \ loggedIn :
          db.users[u] = [is_active |-> FALSE, scheduled_delete_at |-> NONE]

\* the users whose deletion is due at time t
Expired(d, t) ==
    {u \in DOMAIN d.users :
        SoftDeleted(d, u) /\ d.users[u].scheduled_delete_at <= t}

\* C27: a sweep deletes exactly the users who are inactive and whose
\* scheduled_delete_at is not after now, and with them all their vehicles
\* and reservations
C27_SweepDeletesExpired ==
    [][last'.op = "sweep" =>
          /\ DOMAIN db'.users = DOMAIN db.users \ Expired(db, now)
          /\ \A u \in DOMAIN db'.users : db'.users[u] = db.users[u]
          /\ \A v \in DOMAIN db'.vehicles :
                db'.vehicles[v].user_id \notin Expired(db, now)
          /\ \A r \in DOMAIN db'.reservations :
                db'.reservations[r].user_id \notin Expired(db, now)]_vars

\* C28: the sweep is idempotent: a sweep that runs right after a sweep, with
\* no user newly expired, leaves the store as the first run left it, and the
\* store a sweep leaves is one that the sweep maps to itself
C28_SweepIdempotent ==
    [][last'.op = "sweep" =>
          /\ DeleteUsers(db', users_to_delete(db', now')).db = db'
          /\ last.op = "sweep" => db' = db]_vars

C28_Witness ==
    /\ last = [op |-> "sweep", res |-> "ok"]
    /\ budget <= MaxConcSteps - 3
    /\ DOMAIN db.users # UserIds
    /\ Expired(db, now) = {}

\* no spot is OCCUPIED without an active reservation, and every payment is
\* recorded for a reservation that is stored
C29_NothingLeftBehind ==
    /\ \A sid \in DOMAIN db.spots :
          db.spots[sid].status = "O" => ActiveOn(db, sid) # {}
    /\ \A pid \in DOMAIN db.payments :
          db.payments[pid].reservation_id \in DOMAIN db.reservations

\* a reserve or a settle that does not succeed leaves the store as it was
C29_CallAllOrNothing ==
    (last'.op \in {"reserve", "settle"} /\ last'.res # "ok") => db' = db

\* C29: however the sweep is interleaved with the reserve and settle
\* requests, each request takes its full effect or fails with no effect,
\* no spot is left OCCUPIED without an active reservation, and no payment is
\* left recorded for a reservation that no longer exists
C29_SweepInterleavesSafely ==
    [](C29_NothingLeftBehind) /\ [][C29_CallAllOrNothing]_vars

\* C30: every ACTIVE reservation can still be settled: a quote for it is
\* answered, and a settlement with that quote whose commit goes through
\* completes, whatever operations happened since it was reserved
C30_ActiveCanBeSettled ==
    \A rid \in DOMAIN db.reservations :
        db.reservations[rid].status = "ACTIVE" =>
            /\ db.reservations[rid].spot_id # NULL
            /\ \A q \in Quotes(db, rid, now), method \in PaymentMethods :
                  make_payment_tx(db, rid, q, method, TRUE).ok

\* C31: a settlement that succeeds for a reservation applies a quote that
\* was computed for that same reservation, never the quote of another one
C31_QuoteOfSameReservation ==
    [][\A u \in Payers, rid \in DOMAIN db.reservations,
          method \in PaymentMethods, commitOk \in BOOLEAN :
          (/\ session[u] # NoQuote
           /\ make_payment_req(u, rid, method, commitOk)
           /\ SettleOk)
             => session[u].rid = rid]_vars

\* a quote request of user u that is answered with a quote for rid
QuotedBy(u, rid) ==
    /\ last'.op = "quote" /\ last'.res = "ok"
    /\ session'[u] # session[u]
    /\ session'[u].rid = rid

\* a settle request of user u for rid that succeeds
SettledByUser(u, rid) ==
    /\ SettleOk
    /\ \E method \in PaymentMethods, commitOk \in BOOLEAN :
          make_payment_req(u, rid, method, commitOk)

\* C32: a quote or a settlement takes effect on a reservation only when the
\* authenticated caller owns it; nobody completes, or frees the spot of,
\* another user's reservation
C32_OnlyOwnerQuotesAndSettles ==
    [][\A u \in Payers, rid \in DOMAIN db.reservations :
          (QuotedBy(u, rid) \/ SettledByUser(u, rid))
             => db.reservations[rid].user_id = u]_vars

\* C33: the reservation and the vehicle a reserve request stores are owned
\* by the authenticated caller of the request, whatever user id the posted
\* form carries
C33_OwnedByCaller ==
    [][last'.op = "reserve" =>
          \A u \in UserIds :
              Reserving(u) =>
                  /\ \A rid \in NewReservations : db'.reservations[rid].user_id = u
                  /\ \A v \in NewVehicles : db'.vehicles[v].user_id = u]_vars

\* C34: every lot's maximum_number_of_spots is the number of spots it owns,
\* so its AVAILABLE spots and its OCCUPIED spots add up to it
C34_CapacityCountsSpots ==
    \A lid \in DOMAIN db.lots :
        /\ db.lots[lid].maximum_number_of_spots = Cardinality(SpotsOf(db, lid))
        /\ Cardinality(AvailableSpots(db, lid)) + occupied_spots(db, lid)
              = db.lots[lid].maximum_number_of_spots

\* the lots and the spots that a step neither creates nor deletes
SurvivingLots == DOMAIN db.lots \cap DOMAIN db'.lots

SurvivingSpots == DOMAIN db.spots \cap DOMAIN db'.spots

\* C35: the revenue of a lot and of a spot never decreases, and only a
\* settle that succeeds changes it: every other request leaves the revenue
\* of every lot and spot that survives it as it was
C35_RevenueOnlyBySettle ==
    [][/\ \A lid \in SurvivingLots :
             /\ db'.lots[lid].revenue >= db.lots[lid].revenue
             /\ ~SettleOk => db'.lots[lid].revenue = db.lots[lid].revenue
        /\ \A sid \in SurvivingSpots :
             /\ db'.spots[sid].revenue >= db.spots[sid].revenue
             /\ ~SettleOk => db'.spots[sid].revenue = db.spots[sid].revenue]_vars

C35_Witness ==
    /\ last.op \in {"api_put_lot", "api_put_spot", "edit_lot"}
    /\ last.res = "ok"
    /\ \E lid \in DOMAIN db.lots : db.lots[lid].revenue > 0
    /\ \E sid \in DOMAIN db.spots : db.spots[sid].revenue > 0

\* at no instant can a user both be recovered by a login and be swept
C36_RecoverOrSweep ==
    \A u \in DOMAIN db.users :
        ~(/\ SoftDeleted(db, u)
          /\ InGracePeriod(db.users[u], now)
          /\ u \in users_to_delete(db, now))

\* a user who is active, with no deletion scheduled, is not removed
C36_RecoveredIsKept ==
    \A u \in DOMAIN db.users :
        (db.users[u].is_active /\ db.users[u].scheduled_delete_at = NONE)
            => u \in DOMAIN db'.users

\* C36: the condition under which a login recovers a user and the condition
\* under which the sweep deletes the user never hold together, and no
\* interleaving of a login and the sweep deletes a user whose recovery has
\* been committed
C36_RecoveredNeverSwept ==
    [](C36_RecoverOrSweep) /\ [][C36_RecoveredIsKept]_vars

AdminRoute(c) == AdminPage(c) \/ AdminApi(c)

\* the rows of the lots and of the spots without the fields that the requests
\* of the users write
LotsWritten(d) ==
    [lid \in DOMAIN d.lots |-> [d.lots[lid] EXCEPT !.revenue = 0]]

SpotsWritten(d) ==
    [sid \in DOMAIN d.spots |->
        [d.spots[sid] EXCEPT !.revenue = 0, !.status = "A", !.is_covered = FALSE]]

\* C37: a route that creates, edits or deletes a lot or a spot, called by
\* someone who is not a logged-in admin, is rejected and leaves the store as
\* it was; a step that creates, edits or deletes a lot or a spot is a request
\* of the admin
C37_AdminOnly ==
    [][/\ \A c \in Callers \ {AdminId} :
             AdminRoute(c) =>
                 /\ last'.res \in {"Unauthorized", "Forbidden"}
                 /\ db' = db
        /\ ((LotsWritten(db') # LotsWritten(db) \/ SpotsWritten(db') # SpotsWritten(db))
              => AdminRoute(AdminId))]_vars

C37_Witness ==
    /\ last.op \in {"add_lot", "edit_lot", "delete_lot", "delete_spot", "api_add_lot",
                     "api_put_lot", "api_delete_lot", "api_delete_spot", "api_put_spot"}
    /\ last.res = "Forbidden"

\* C38: every reservation's vehicle_number is the key of a stored vehicle
\* and its user_id is the id of a stored user
C38_ReservationsReferToRows ==
    \A rid \in DOMAIN db.reservations :
        /\ db.reservations[rid].vehicle_number \in DOMAIN db.vehicles
        /\ db.reservations[rid].user_id \in DOMAIN db.users

====
